---- MODULE Spec2Model ----
(***************************************************************************)
(* Model of three pieces of the OmniNxt simulator tools:                   *)
(*                                                                         *)
(*  - the configuration loading at the start of                            *)
(*    apps/data_apps/01_path_tracking_sdg.py,                              *)
(*  - the trajectory replay loop of the same script (process_group /       *)
(*    main), and                                                           *)
(*  - the vectorised quadrotor environment QuadcopterWithYawEnv of         *)
(*    apps/rl_apps/quad_controller/train/quad_env.py, driven by the        *)
(*    step()/reset() loop of its base class DirectRLEnv.                   *)
(*                                                                         *)
(* Units.  Lengths are in decimetres (0.1 m), so the altitude band         *)
(* [0.1, 2.0] m is [1, 20].  Angles are in quarter turns (pi/2), so 2*pi   *)
(* is 4 and a yaw of pi is 2; on this grid the quaternion of a yaw         *)
(* rotation has integer components and cos, sin and acos are exact.        *)
(* Timestamps are integers.  A mean is kept as the pair (sum, count).      *)
(***************************************************************************)
EXTENDS Integers, Sequences, FiniteSets, TLC

VARIABLES
    \* ---- 01_path_tracking_sdg.py ----
    db,               \* TrajectoryDatabase: a sequence of groups, each the timestamp column of a trajectory
    interval,         \* config["sample_interval"]
    group_num,        \* loop variable of main()
    sample_counter,   \* loop variable of process_group()
    writer,           \* state of the writer of the current group
    emitted,          \* calls of rep.orchestrator.step so far: [group, index, timestamp, dt]
    events,           \* calls on the writer and the orchestrator so far: [ev, group]
    error,            \* exception that ended main(), or "none"
    pc,               \* position of main()/process_group()
    \* ---- quad_env.py ----
    actions,          \* self._actions
    thrust,           \* self._thrust[:, 0, 2]
    moment,           \* self._moment[:, 0, :]
    desired_pos_w,    \* self._desired_pos_w
    desired_yaw_w,    \* self._desired_yaw_w[:, 0]
    desired_yaw_quat, \* self._desired_yaw_quat
    episode_sums,     \* self._episode_sums
    episode_length_buf, \* self.episode_length_buf
    robot,            \* self._robot.data: root_pos_w, root_quat_w, root_lin_vel_b, root_ang_vel_b
    reset_terminated, \* self.reset_terminated
    reset_time_outs,  \* self.reset_time_outs
    log,              \* self.extras["log"] as the method that ran last wrote it; not valid otherwise
    call,             \* the method of the environment that ran last, with its argument
    phase,            \* position of DirectRLEnv.step()
    nsteps,           \* number of step() calls started
    \* ---- 01_path_tracking_sdg.py, module level ----
    argv_config,      \* args.config and the file it names
    args_config,      \* args_config
    config,           \* the global config dictionary
    warnings,         \* messages passed to carb.log_warn so far
    startup,          \* position of the module-level code
    raised            \* exception that ended the module-level code, or "none"

sampler_vars == <<db, interval, group_num, sample_counter, writer, emitted, events, error, pc>>
env_vars == <<actions, thrust, moment, desired_pos_w, desired_yaw_w, desired_yaw_quat,
              episode_sums, episode_length_buf, robot, reset_terminated, reset_time_outs,
              log, call, phase, nsteps>>
config_vars == <<argv_config, args_config, config, warnings, startup, raised>>
vars == <<sampler_vars, env_vars, config_vars>>

(***************************************************************************)
(* Bounds                                                                  *)
(***************************************************************************)
MaxGroups == 2      \* groups in the trajectory store
MaxLen == 3         \* samples per drawn trajectory
MaxTime == 2        \* largest timestamp of a drawn trajectory
MaxInterval == 3    \* |sample_interval| of a drawn configuration

(***************************************************************************)
(* Generic helpers                                                         *)
(***************************************************************************)
RECURSIVE SumOver(_, _)
SumOver(f, S) ==
    IF S = {} THEN 0
    ELSE LET x == CHOOSE y \in S : TRUE IN f[x] + SumOver(f, S \ {x})

\* Python's a % b for b # 0: the result has the sign of b
PyMod(a, b) == IF b > 0 THEN a % b ELSE -((-a) % (-b))

(***************************************************************************)
(* Trajectory replay: 01_path_tracking_sdg.py                              *)
(***************************************************************************)
\* timestamp columns with strictly increasing timestamps, at most MaxLen samples
RECURSIVE IncreasingSeqs(_, _)
IncreasingSeqs(lo, n) ==
    IF n = 0 THEN {<<>>}
    ELSE {<<>>} \cup UNION {{<<t>> \o s : s \in IncreasingSeqs(t + 1, n - 1)} : t \in lo..MaxTime}

Trajectories == IncreasingSeqs(0, MaxLen)

\* the trajectory of the documented example: 101 samples, indices 0..100
ExampleTrajectory == [k \in 1..101 |-> (k - 1) * (k - 1)]
ExampleInterval == 10

\* trajectory.getTimestamp()[i], 0-based
Timestamp(trajectory, i) == trajectory[i + 1]

\* db.getTrajectory(group_num)
getTrajectory(g) == db[g + 1]

\* variant of Visited: the stride counted from 1 instead of 0
VisitedOneBased(i, step) == PyMod(i + 1, step) = 0

\* line 243: the samples that are not skipped (step # 0)
Visited(i, step) == PyMod(i, step) = 0

\* variant of NextTimestamp: the next visited sample instead of the next sample
NextTimestampStrided(trajectory, i, step) ==
    IF step > 0 /\ i + step < Len(trajectory) THEN Timestamp(trajectory, i + step)
    ELSE Timestamp(trajectory, i)

\* variant of NextTimestamp: zero instead of the sample's own timestamp at the end
NextTimestampZeroAtEnd(trajectory, i, step) ==
    IF i + 1 < Len(trajectory) THEN Timestamp(trajectory, i + 1)
    ELSE 0

\* line 262: the timestamp taken as the end of the step that starts at index i
NextTimestamp(trajectory, i, step) ==
    IF i + 1 < Len(trajectory) THEN Timestamp(trajectory, i + 1)
    ELSE Timestamp(trajectory, i)

\* variant of Dt: the end of the step instead of its duration
DtAbsolute(trajectory, i, step) == NextTimestamp(trajectory, i, step)

\* line 263
Dt(trajectory, i, step) == NextTimestamp(trajectory, i, step) - Timestamp(trajectory, i)

SamplerInit ==
    /\ \/ /\ db \in UNION {[1..n -> Trajectories] : n \in 0..MaxGroups}
          /\ interval \in (-MaxInterval)..MaxInterval
       \/ /\ db = <<ExampleTrajectory>>
          /\ interval = ExampleInterval
    /\ group_num = 0
    /\ sample_counter = 0
    /\ writer = "none"
    /\ emitted = <<>>
    /\ events = <<>>
    /\ error = "none"
    /\ pc = "main"

\* main(), line 275: next group of range(len(db)); process_group lines 232-241
BeginGroup ==
    /\ pc = "main"
    /\ group_num < Len(db)
    /\ writer' = "attached"
    /\ events' = events \o <<[ev |-> "writer.initialize", group |-> group_num],
                             [ev |-> "writer.attach", group |-> group_num]>>
    /\ sample_counter' = 0
    /\ pc' = "loop"
    /\ UNCHANGED <<db, interval, group_num, emitted, error>>
    /\ UNCHANGED <<env_vars, config_vars>>

\* line 243 with sample_interval = 0: the modulo raises, main() unwinds to `finally`
LoopDivideByZero ==
    /\ pc = "loop"
    /\ sample_counter < Len(getTrajectory(group_num))
    /\ interval = 0
    /\ error' = "ZeroDivisionError"
    /\ pc' = "done"
    /\ UNCHANGED <<db, interval, group_num, sample_counter, writer, emitted, events>>
    /\ UNCHANGED <<env_vars, config_vars>>

\* lines 243-244: `continue`
LoopSkip ==
    /\ pc = "loop"
    /\ sample_counter < Len(getTrajectory(group_num))
    /\ interval # 0
    /\ ~Visited(sample_counter, interval)
    /\ sample_counter' = sample_counter + 1
    /\ UNCHANGED <<db, interval, group_num, writer, emitted, events, error, pc>>
    /\ UNCHANGED <<env_vars, config_vars>>

\* lines 245-266: pose the cameras and step the orchestrator
LoopEmit ==
    /\ pc = "loop"
    /\ sample_counter < Len(getTrajectory(group_num))
    /\ interval # 0
    /\ Visited(sample_counter, interval)
    /\ LET trajectory == getTrajectory(group_num)
           timestamp == Timestamp(trajectory, sample_counter)
       IN  emitted' = Append(emitted, [group |-> group_num, index |-> sample_counter,
                                       timestamp |-> timestamp,
                                       dt |-> Dt(trajectory, sample_counter, interval)])
    /\ events' = Append(events, [ev |-> "orchestrator.step", group |-> group_num])
    /\ sample_counter' = sample_counter + 1
    /\ UNCHANGED <<db, interval, group_num, writer, error, pc>>
    /\ UNCHANGED <<env_vars, config_vars>>

\* lines 268-271: wait_until_complete, writer.detach; back in main()
EndGroup ==
    /\ pc = "loop"
    /\ sample_counter >= Len(getTrajectory(group_num))
    /\ writer' = "detached"
    /\ events' = events \o <<[ev |-> "orchestrator.wait_until_complete", group |-> group_num],
                             [ev |-> "writer.detach", group |-> group_num]>>
    /\ group_num' = group_num + 1
    /\ pc' = "main"
    /\ UNCHANGED <<db, interval, sample_counter, emitted, error>>
    /\ UNCHANGED <<env_vars, config_vars>>

\* line 275: range(len(db)) exhausted
MainDone ==
    /\ pc = "main"
    /\ group_num >= Len(db)
    /\ pc' = "done"
    /\ UNCHANGED <<db, interval, group_num, sample_counter, writer, emitted, events, error>>
    /\ UNCHANGED <<env_vars, config_vars>>

SamplerNext ==
    \/ BeginGroup
    \/ LoopDivideByZero
    \/ LoopSkip
    \/ LoopEmit
    \/ EndGroup
    \/ MainDone

(***************************************************************************)
(* Configuration loading: 01_path_tracking_sdg.py, module level            *)
(***************************************************************************)
DefaultSampleInterval == 10   \* config["sample_interval"] of the built-in defaults

\* a dictionary is a function from its keys; {} is the function of no key
EmptyDict == [k \in {} |-> 0]

\* dict.update
Update(d, u) ==
    [k \in DOMAIN d \cup DOMAIN u |-> IF k \in DOMAIN u THEN u[k] ELSE d[k]]

\* lines 13-83, as far as the properties read them: the sampling interval and the
\* writer's channel flags
DefaultConfig ==
    [sample_interval |-> DefaultSampleInterval,
     writer_config |-> [rgb |-> TRUE, occlusion |-> TRUE]]

\* values a configuration file gives to the two keys
FileIntervals == {1, 3, 100}
FileWriterConfigs == {[rgb |-> FALSE], [rgb |-> TRUE, occlusion |-> FALSE]}

\* mappings a well-formed configuration file holds
FileMappings ==
    {EmptyDict}
    \cup {[k \in {"sample_interval"} |-> iv] : iv \in FileIntervals}
    \cup {[k \in {"writer_config"} |-> wc] : wc \in FileWriterConfigs}
    \cup {[sample_interval |-> iv, writer_config |-> wc] :
              iv \in FileIntervals, wc \in FileWriterConfigs}

\* what json.load / yaml.safe_load make of a file: a mapping, null (an empty YAML
\* file, JSON null), a sequence of scalars, or a syntax error
FileContents ==
    {[kind |-> "mapping", value |-> m] : m \in FileMappings}
    \cup {[kind |-> "null", value |-> EmptyDict],
          [kind |-> "sequence", value |-> EmptyDict],
          [kind |-> "malformed", value |-> EmptyDict]}

\* the file system at the path of --config
Files == {[exists |-> FALSE, content |-> [kind |-> "none", value |-> EmptyDict]]}
         \cup {[exists |-> TRUE, content |-> c] : c \in FileContents}

\* sys.argv: no --config, or --config <path> with the path's extension and file
Arguments ==
    {[given |-> FALSE, ext |-> "none",
      file |-> [exists |-> FALSE, content |-> [kind |-> "none", value |-> EmptyDict]]]}
    \cup {[given |-> TRUE, ext |-> e, file |-> f] : e \in {"json", "yaml", "other"}, f \in Files}

\* the state when the interpreter reaches line 87
ConfigInit ==
    /\ argv_config \in Arguments
    /\ args_config = [kind |-> "mapping", value |-> EmptyDict]
    /\ config = DefaultConfig
    /\ warnings = <<>>
    /\ startup = "args"
    /\ raised = "none"

\* lines 88-102: parse the arguments and read the file
ReadConfigFile ==
    /\ startup = "args"
    /\ IF argv_config.given /\ argv_config.file.exists
       THEN IF argv_config.ext \in {"json", "yaml"}
            THEN IF argv_config.file.content.kind = "malformed"
                 THEN /\ raised' = (IF argv_config.ext = "json" THEN "JSONDecodeError"
                                    ELSE "YAMLError")
                      /\ startup' = "aborted"
                      /\ UNCHANGED <<args_config, warnings>>
                 ELSE /\ args_config' = argv_config.file.content
                      /\ startup' = "merge"
                      /\ UNCHANGED <<warnings, raised>>
            ELSE /\ warnings' = Append(warnings, "is not json or yaml, will use default config")
                 /\ startup' = "merge"
                 /\ UNCHANGED <<args_config, raised>>
       ELSE /\ warnings' = Append(warnings, "does not exist, will use default config")
            /\ startup' = "merge"
            /\ UNCHANGED <<args_config, raised>>
    /\ UNCHANGED <<argv_config, config>>
    /\ UNCHANGED <<sampler_vars, env_vars>>

\* lines 105-109: `"writer_config" in args_config`, config.update(args_config)
MergeConfig ==
    /\ startup = "merge"
    /\ IF args_config.kind = "mapping"
       THEN LET cleared == IF "writer_config" \in DOMAIN args_config.value
                           THEN [config EXCEPT !.writer_config = EmptyDict]
                           ELSE config
            IN  /\ config' = Update(cleared, args_config.value)
                /\ startup' = "ready"
                /\ UNCHANGED raised
       ELSE \* None is not iterable (line 105); a sequence of scalars is no
            \* sequence of key/value pairs (line 109)
            /\ raised' = "TypeError"
            /\ startup' = "aborted"
            /\ UNCHANGED config
    /\ UNCHANGED <<argv_config, args_config, warnings>>
    /\ UNCHANGED <<sampler_vars, env_vars>>

ConfigNext ==
    \/ ReadConfigFile
    \/ MergeConfig

(***************************************************************************)
(* Quadrotor environment: quad_env.py                                      *)
(***************************************************************************)
NumEnvs == 2            \* cfg.scene.num_envs: 32 in the configuration, a batch of 2 here
MaxEpisodeLength == 3   \* self.max_episode_length of the modelled batch
MaxSteps == 2           \* step()/reset() calls of the host that are explored

max_episode_length_s == 10   \* cfg.episode_length_s
EnvSpacing == 50             \* cfg.scene.env_spacing = 5 m
StepDtCenti == 2             \* step_dt = sim.dt * decimation = 0.02 s
lin_vel_reward_scale == -10            \* -0.01, in 1/1000
ang_vel_reward_scale == -2             \* -0.002, in 1/1000
distance_to_goal_reward_scale == 30000 \* 30.0, in 1/1000
radial_to_goal_yaw_reward_scale == 5000 \* 5.0, in 1/1000
AltitudeMin == 1             \* 0.1 m
AltitudeMax == 20            \* 2.0 m
ActionOne == 10              \* an action component of 1.0, in tenths
thrust_to_weight == 19       \* 1.9, in tenths
moment_scale == 1            \* 0.01: a moment is in 1/1000 per tenth of action
robot_weight == 1            \* self._robot_weight, the unit of thrust
GoalXYRange == 30            \* uniform_(-3.0, 3.0): 3 m
GoalZMin == 5                \* uniform_(0.5, 3.0): 0.5 m
GoalZMax == 30               \* uniform_(0.5, 3.0): 3 m
TwoPi == 4                   \* 2 * torch.pi in quarter turns
Pi == 2                      \* torch.pi in quarter turns

Envs == 0..(NumEnvs - 1)     \* self._robot._ALL_INDICES
RewardKeys == {"lin_vel", "ang_vel", "distance_to_goal_pose", "radial_to_goal_yaw"}

\* The env_ids argument of _reset_idx: None, or a tensor of distinct indices.
NoneArg == [is_none |-> TRUE, ids |-> {}]
\* the value of `log` after a method that writes no log
NoLog == [valid |-> FALSE]
IdsArg(S) == [is_none |-> FALSE, ids |-> S]

\* self._terrain.env_origins: one origin per environment, env_spacing apart
env_origins == [i \in Envs |-> <<EnvSpacing * i, 0, 0>>]

\* ---- vectors and quaternions -------------------------------------------
Vec3Add(a, b) == <<a[1] + b[1], a[2] + b[2], a[3] + b[3]>>
Vec3Sub(a, b) == <<a[1] - b[1], a[2] - b[2], a[3] - b[3]>>
SumSquares(v) == SumOver([k \in DOMAIN v |-> v[k] * v[k]], DOMAIN v)
ISqrt(n) == CHOOSE r \in 0..n : r * r <= n /\ (r + 1) * (r + 1) > n
\* torch.linalg.norm, rounded down to the length unit
Norm(v) == ISqrt(SumSquares(v))

\* cos and sin on the quarter-turn grid
CosQ(a) == CASE a % 4 = 0 -> 1 [] a % 4 = 1 -> 0 [] a % 4 = 2 -> -1 [] OTHER -> 0
SinQ(a) == CASE a % 4 = 0 -> 0 [] a % 4 = 1 -> 1 [] a % 4 = 2 -> 0 [] OTHER -> -1
\* torch.acos on {-1, 0, 1}, in quarter turns
AcosQ(w) == CASE w = 1 -> 0 [] w = 0 -> 1 [] OTHER -> 2
Clamp(x, lo, hi) == IF x < lo THEN lo ELSE IF x > hi THEN hi ELSE x
Min(a, b) == IF a < b THEN a ELSE b

\* variant of YawQuat: the full angle instead of the half angle
YawQuatFullAngle(old, yaw) == <<CosQ(yaw), old[2], old[3], SinQ(yaw)>>

\* lines 127-128 and 292-293: (w, x, y, z) of a yaw about the vertical axis;
\* x and y are never written and stay the zeros of line 126
YawQuat(old, yaw) == <<CosQ(yaw \div 2), old[2], old[3], SinQ(yaw \div 2)>>

\* lines 202-203 and 252-253
Conj(q) == <<q[1], -q[2], -q[3], -q[4]>>

\* lines 205-211 and 255-261: desired_quat * current_quat_conj, normalised
QuatDiff(d, c) ==
    LET cc == Conj(c)
        raw == << d[1] * cc[1] - d[2] * cc[2] - d[3] * cc[3] - d[4] * cc[4],
                  d[1] * cc[2] + d[2] * cc[1] + d[3] * cc[4] - d[4] * cc[3],
                  d[1] * cc[3] - d[2] * cc[4] + d[3] * cc[1] + d[4] * cc[2],
                  d[1] * cc[4] + d[2] * cc[3] - d[3] * cc[2] + d[4] * cc[1] >>
        n == Norm(raw)
    IN  [k \in 1..4 |-> raw[k] \div n]

\* lines 214-215 and 263-264
AngularDiff(d, c) ==
    LET a == 2 * AcosQ(Clamp(QuatDiff(d, c)[1], -1, 1))
    IN  Min(a, TwoPi - a)

\* ---- the robot as the physics engine reports it -------------------------
\* self._robot.data.default_root_state: the asset's initial pose, at rest
default_root_state ==
    [root_pos_w |-> <<0, 0, 5>>, root_quat_w |-> <<1, 0, 0, 0>>,
     root_lin_vel_b |-> <<0, 0, 0>>, root_ang_vel_b |-> <<0, 0, 0>>]

\* States a simulated robot can be in after a physics step, relative to its
\* environment origin: below, on the edges of, inside and above the altitude band.
PhysicsOutcomes ==
    { [root_pos_w |-> <<0, 0, 0>>,  root_quat_w |-> <<0, 0, 0, 1>>,
       root_lin_vel_b |-> <<0, 0, -1>>, root_ang_vel_b |-> <<0, 0, 0>>],
      [root_pos_w |-> <<0, 0, 1>>,  root_quat_w |-> <<1, 0, 0, 0>>,
       root_lin_vel_b |-> <<0, 0, 0>>, root_ang_vel_b |-> <<0, 0, 0>>],
      [root_pos_w |-> <<3, 4, 10>>, root_quat_w |-> <<0, 0, 0, 1>>,
       root_lin_vel_b |-> <<1, 0, 0>>, root_ang_vel_b |-> <<0, 0, 1>>],
      [root_pos_w |-> <<0, 0, 20>>, root_quat_w |-> <<1, 0, 0, 0>>,
       root_lin_vel_b |-> <<0, 0, 0>>, root_ang_vel_b |-> <<0, 0, 0>>],
      [root_pos_w |-> <<0, 0, 21>>, root_quat_w |-> <<1, 0, 0, 0>>,
       root_lin_vel_b |-> <<0, 0, 1>>, root_ang_vel_b |-> <<0, 0, 0>>] }

\* the outcome inside the altitude band
NominalOutcome ==
    [root_pos_w |-> <<3, 4, 10>>, root_quat_w |-> <<0, 0, 0, 1>>,
     root_lin_vel_b |-> <<1, 0, 0>>, root_ang_vel_b |-> <<0, 0, 1>>]

\* outcomes of one physics step for the batch: one robot ends in any of the
\* states above while the others fly inside the band
PhysicsBatches ==
    {[i \in 0..(NumEnvs - 1) |-> IF i = e THEN o ELSE NominalOutcome] :
        e \in 0..(NumEnvs - 1), o \in PhysicsOutcomes}

\* a robot state placed at the origin of environment i
AtOrigin(r, i) == [r EXCEPT !.root_pos_w = Vec3Add(r.root_pos_w, env_origins[i])]

\* ---- inputs --------------------------------------------------------------
\* action vectors the policy supplies, in tenths; some components lie outside [-1, 1]
ActionLow == <<-20, 10, -10, 0>>
ActionHigh == <<10, 25, 0, -4>>
ActionMid == <<0, -3, 12, 10>>
\* action tensors of shape (num_envs, 4)
ActionBatches ==
    {[i \in 0..(NumEnvs - 1) |-> IF i < k THEN ActionLow ELSE ActionHigh] : k \in 0..NumEnvs}
    \cup {[i \in 0..(NumEnvs - 1) |-> ActionMid]}

\* draws of uniform_(-3.0, 3.0), uniform_(0.5, 3.0), uniform_(0, 6.28) of lines 288-291
GoalDraws ==
    { [xy |-> <<-30, 29>>, z |-> 5,  yaw |-> 0],
      [xy |-> <<29, -30>>, z |-> 29, yaw |-> 2] }

\* ---- construction: __init__, lines 110-147 ------------------------------
EnvInit ==
    /\ actions = [i \in Envs |-> <<0, 0, 0, 0>>]
    /\ thrust = [i \in Envs |-> 0]
    /\ moment = [i \in Envs |-> <<0, 0, 0>>]
    /\ desired_pos_w = [i \in Envs |-> <<0, 0, 0>>]
    /\ desired_yaw_w = [i \in Envs |-> 0]
    /\ desired_yaw_quat = [i \in Envs |-> YawQuat(<<0, 0, 0, 0>>, 0)]
    /\ episode_sums = [key \in RewardKeys |-> [i \in Envs |-> 0]]
    /\ episode_length_buf = [i \in Envs |-> 0]
    /\ robot = [i \in Envs |-> AtOrigin(default_root_state, i)]
    /\ reset_terminated = [i \in Envs |-> FALSE]
    /\ reset_time_outs = [i \in Envs |-> FALSE]
    /\ log = NoLog
    /\ call = [op |-> "__init__", env_ids |-> NoneArg]
    /\ phase = "idle"
    /\ nsteps = 0

\* ---- _pre_physics_step, lines 163-166 -----------------------------------
ClampAction(a) == [k \in 1..4 |-> Clamp(a[k], -ActionOne, ActionOne)]
\* variant of Thrust: the action is not shifted to [0, 2] before scaling
ThrustNoOffset(a) == (thrust_to_weight * robot_weight * a[1]) \div 2
Thrust(a) == (thrust_to_weight * robot_weight * (a[1] + ActionOne)) \div 2
Moment(a) == <<moment_scale * a[2], moment_scale * a[3], moment_scale * a[4]>>

PrePhysicsStep ==
    /\ phase = "idle"
    /\ call.op # "__init__"
    /\ nsteps < MaxSteps
    /\ \E input \in ActionBatches :
          LET clamped == [i \in Envs |-> ClampAction(input[i])]
          IN  /\ actions' = clamped
              /\ thrust' = [i \in Envs |-> Thrust(clamped[i])]
              /\ moment' = [i \in Envs |-> Moment(clamped[i])]
    /\ log' = NoLog
    /\ call' = [op |-> "_pre_physics_step", env_ids |-> NoneArg]
    /\ phase' = "physics"
    /\ nsteps' = nsteps + 1
    /\ UNCHANGED <<desired_pos_w, desired_yaw_w, desired_yaw_quat, episode_sums,
                   episode_length_buf, robot, reset_terminated, reset_time_outs>>
    /\ UNCHANGED <<sampler_vars, config_vars>>

\* ---- _apply_action and the simulation steps of step(), lines 168-169 ----
\* The engine moves every robot; step() then counts the step of every environment.
PhysicsStep ==
    /\ phase = "physics"
    /\ \E outcome \in PhysicsBatches :
          robot' = [i \in Envs |-> AtOrigin(outcome[i], i)]
    /\ episode_length_buf' = [i \in Envs |-> episode_length_buf[i] + 1]
    /\ log' = NoLog
    /\ call' = [op |-> "_apply_action", env_ids |-> NoneArg]
    /\ phase' = "dones"
    /\ UNCHANGED <<actions, thrust, moment, desired_pos_w, desired_yaw_w, desired_yaw_quat,
                   episode_sums, reset_terminated, reset_time_outs, nsteps>>
    /\ UNCHANGED <<sampler_vars, config_vars>>

\* ---- _get_dones, lines 236-239 -------------------------------------------
\* variant of Died: the edges of the altitude band count as outside
DiedClosedEdges(i) ==
    \/ robot[i].root_pos_w[3] <= AltitudeMin
    \/ robot[i].root_pos_w[3] >= AltitudeMax

\* line 238
Died(i) ==
    \/ robot[i].root_pos_w[3] < AltitudeMin
    \/ robot[i].root_pos_w[3] > AltitudeMax

\* variant of TimeOut: the threshold is max_episode_length
TimeOutAtMax(i) == episode_length_buf[i] >= MaxEpisodeLength

\* variant of TimeOut: a robot outside the altitude band counts as timed out
TimeOutOrDied(i) == episode_length_buf[i] >= MaxEpisodeLength - 1 \/ Died(i)

\* line 237
TimeOut(i) == episode_length_buf[i] >= MaxEpisodeLength - 1

GetDones ==
    /\ phase = "dones"
    /\ reset_terminated' = [i \in Envs |-> Died(i)]
    /\ reset_time_outs' = [i \in Envs |-> TimeOut(i)]
    /\ log' = NoLog
    /\ call' = [op |-> "_get_dones", env_ids |-> NoneArg]
    /\ phase' = "rewards"
    /\ UNCHANGED <<actions, thrust, moment, desired_pos_w, desired_yaw_w, desired_yaw_quat,
                   episode_sums, episode_length_buf, robot, nsteps>>
    /\ UNCHANGED <<sampler_vars, config_vars>>

\* ---- _get_rewards, lines 188-234 -----------------------------------------
\* tanh(d / 0.8) in 1/100, d in decimetres, by the upper edge of d's bracket
TanhCenti(d) ==
    IF d = 0 THEN 0 ELSE IF d <= 4 THEN 46 ELSE IF d <= 8 THEN 76
    ELSE IF d <= 16 THEN 96 ELSE 100

\* lines 190-225: the four reward components of environment i, in 1e-7
Rewards(i) ==
    LET lin_vel == SumSquares(robot[i].root_lin_vel_b)
        ang_vel == SumSquares(robot[i].root_ang_vel_b)
        distance_to_goal_pose == Norm(Vec3Sub(desired_pos_w[i], robot[i].root_pos_w))
        distance_to_goal_pose_mapped == 100 - TanhCenti(distance_to_goal_pose)
        radial_to_goal_yaw == AngularDiff(desired_yaw_quat[i], robot[i].root_quat_w)
    IN  [key \in RewardKeys |->
            CASE key = "lin_vel" -> 100 * lin_vel * lin_vel_reward_scale * StepDtCenti
              [] key = "ang_vel" -> 100 * ang_vel * ang_vel_reward_scale * StepDtCenti
              [] key = "distance_to_goal_pose" ->
                    distance_to_goal_pose_mapped * distance_to_goal_reward_scale * StepDtCenti
              [] OTHER ->
                    (100 - (100 * radial_to_goal_yaw) \div Pi)
                        * radial_to_goal_yaw_reward_scale * StepDtCenti]

\* variant of Accumulate: the sum is overwritten by the value of the step
AccumulateOverwriting(sum, value) == value

\* line 232: self._episode_sums[key] += value
Accumulate(sum, value) == sum + value

GetRewards ==
    /\ phase = "rewards"
    /\ episode_sums' = [key \in RewardKeys |->
                          [i \in Envs |-> Accumulate(episode_sums[key][i], Rewards(i)[key])]]
    /\ log' = NoLog
    /\ call' = [op |-> "_get_rewards", env_ids |-> NoneArg]
    /\ phase' = "reset"
    /\ UNCHANGED <<actions, thrust, moment, desired_pos_w, desired_yaw_w, desired_yaw_quat,
                   episode_length_buf, robot, reset_terminated, reset_time_outs, nsteps>>
    /\ UNCHANGED <<sampler_vars, config_vars>>

\* ---- _reset_idx, lines 241-302 -------------------------------------------
\* variant of ResolveEnvIds: every call resets the whole batch
ResolveEnvIdsAll(arg) == Envs

\* lines 242-243
ResolveEnvIds(arg) ==
    IF arg.is_none \/ Cardinality(arg.ids) = NumEnvs THEN Envs ELSE arg.ids

\* the part of the batch that the logging of _reset_idx reads
Batch ==
    [desired_pos_w |-> desired_pos_w, desired_yaw_quat |-> desired_yaw_quat,
     robot |-> robot, episode_sums |-> episode_sums,
     reset_terminated |-> reset_terminated, reset_time_outs |-> reset_time_outs]

\* torch.mean of v over the index set ids: (sum, count)
Mean(v, ids) == [sum |-> SumOver(v, ids), count |-> Cardinality(ids)]

\* lines 250-265 and 277: angular_diff is computed for the whole batch and
\* final_yaw_diff.mean() is taken without indexing by env_ids
FinalYawDiffIndices(env_ids) == Envs

\* lines 245-278: the dictionary stored in self.extras["log"]
LogAggregates(b, env_ids) ==
    LET distance == [i \in Envs |-> Norm(Vec3Sub(b.desired_pos_w[i], b.robot[i].root_pos_w))]
        angular_diff == [i \in Envs |-> AngularDiff(b.desired_yaw_quat[i], b.robot[i].root_quat_w)]
        episodic_sum_avg == [key \in RewardKeys |-> Mean(b.episode_sums[key], env_ids)]
    IN  [valid |-> TRUE,
         Episode_Reward |->
             [key \in RewardKeys |->
                 [sum |-> episodic_sum_avg[key].sum,
                  count |-> episodic_sum_avg[key].count * max_episode_length_s]],
         Episode_Termination_died |-> Cardinality({i \in env_ids : b.reset_terminated[i]}),
         Episode_Termination_time_out |-> Cardinality({i \in env_ids : b.reset_time_outs[i]}),
         Metrics_final_distance_to_goal |-> Mean(distance, env_ids),
         Metrics_final_yaw_diff |-> Mean(angular_diff, FinalYawDiffIndices(env_ids))]

\* variant of GoalPosition: the terrain origin is not added
GoalPositionNoOrigin(draw, i) == <<draw.xy[1], draw.xy[2], draw.z>>

\* lines 288-290: the drawn x and y offset by the terrain origin, the drawn z
GoalPosition(draw, i) ==
    <<draw.xy[1] + env_origins[i][1], draw.xy[2] + env_origins[i][2], draw.z>>

\* variant of RandomizedEnvs: the counters of every reset are drawn at random
RandomizedEnvsAnyReset(env_ids) == env_ids

\* lines 280-284: the environments whose step counter is drawn at random
RandomizedEnvs(env_ids) == IF Cardinality(env_ids) = NumEnvs THEN Envs ELSE {}

\* line 284: torch.randint_like(..., high=int(self.max_episode_length))
RandintHigh == 0..(MaxEpisodeLength - 1)

ResetIdx(arg) ==
    LET env_ids == ResolveEnvIds(arg)
        randomized == RandomizedEnvs(env_ids)
    IN  /\ log' = LogAggregates(Batch, env_ids)
        /\ episode_sums' = [key \in RewardKeys |->
                              [i \in Envs |-> IF i \in env_ids THEN 0 ELSE episode_sums[key][i]]]
        /\ \E r \in [randomized -> RandintHigh] :
              episode_length_buf' =
                  [i \in Envs |-> IF i \in randomized THEN r[i]
                                  ELSE IF i \in env_ids THEN 0
                                  ELSE episode_length_buf[i]]
        /\ actions' = [i \in Envs |-> IF i \in env_ids THEN <<0, 0, 0, 0>> ELSE actions[i]]
        /\ \E draw \in [env_ids -> GoalDraws] :
              /\ desired_pos_w' =
                    [i \in Envs |->
                        IF i \in env_ids THEN GoalPosition(draw[i], i)
                        ELSE desired_pos_w[i]]
              /\ desired_yaw_w' = [i \in Envs |-> IF i \in env_ids THEN draw[i].yaw
                                                  ELSE desired_yaw_w[i]]
              /\ desired_yaw_quat' =
                    [i \in Envs |-> IF i \in env_ids
                                    THEN YawQuat(desired_yaw_quat[i], draw[i].yaw)
                                    ELSE desired_yaw_quat[i]]
        /\ robot' = [i \in Envs |-> IF i \in env_ids THEN AtOrigin(default_root_state, i)
                                    ELSE robot[i]]
        /\ call' = [op |-> "_reset_idx", env_ids |-> arg]
        /\ UNCHANGED <<thrust, moment, reset_terminated, reset_time_outs>>

\* ---- the host: DirectRLEnv.step() and DirectRLEnv.reset() ----------------
\* reset_buf.nonzero(): the environments that terminated or timed out
ResetBuf == {i \in Envs : reset_terminated[i] \/ reset_time_outs[i]}

\* step(): `if len(reset_env_ids) > 0: self._reset_idx(reset_env_ids)`
StepReset ==
    /\ phase = "reset"
    /\ ResetBuf # {}
    /\ ResetIdx(IdsArg(ResetBuf))
    /\ phase' = "idle"
    /\ UNCHANGED nsteps
    /\ UNCHANGED <<sampler_vars, config_vars>>

\* step(): nothing to reset; the observations are read (lines 171-186)
StepNoReset ==
    /\ phase = "reset"
    /\ ResetBuf = {}
    /\ log' = NoLog
    /\ call' = [op |-> "_get_observations", env_ids |-> NoneArg]
    /\ phase' = "idle"
    /\ UNCHANGED <<actions, thrust, moment, desired_pos_w, desired_yaw_w, desired_yaw_quat,
                   episode_sums, episode_length_buf, robot, reset_terminated,
                   reset_time_outs, nsteps>>
    /\ UNCHANGED <<sampler_vars, config_vars>>

\* reset(), the first call of the host after construction: the whole batch,
\* passed as None or as all indices
HostReset ==
    /\ phase = "idle"
    /\ call.op = "__init__"
    /\ \E arg \in {NoneArg, IdsArg(Envs)} : ResetIdx(arg)
    /\ UNCHANGED <<phase, nsteps>>
    /\ UNCHANGED <<sampler_vars, config_vars>>

EnvNext ==
    \/ PrePhysicsStep
    \/ PhysicsStep
    \/ GetDones
    \/ GetRewards
    \/ StepReset
    \/ StepNoReset
    \/ HostReset

(***************************************************************************)
(* Specifications                                                          *)
(***************************************************************************)
\* the environment; the replay script is not running
SamplerIdle ==
    /\ db = <<>>
    /\ interval = 0
    /\ group_num = 0
    /\ sample_counter = 0
    /\ writer = "none"
    /\ emitted = <<>>
    /\ events = <<>>
    /\ error = "none"
    /\ pc = "done"

\* the replay script's configuration is not being loaded
ConfigIdle ==
    /\ argv_config = [given |-> FALSE, ext |-> "none",
                      file |-> [exists |-> FALSE,
                                content |-> [kind |-> "none", value |-> EmptyDict]]]
    /\ args_config = [kind |-> "mapping", value |-> EmptyDict]
    /\ config = DefaultConfig
    /\ warnings = <<>>
    /\ startup = "idle"
    /\ raised = "none"

\* the replay script has loaded a JSON file that sets the sampling interval
ConfigLoaded ==
    LET mapping == [k \in {"sample_interval"} |-> interval]
    IN  /\ argv_config = [given |-> TRUE, ext |-> "json",
                          file |-> [exists |-> TRUE,
                                    content |-> [kind |-> "mapping", value |-> mapping]]]
        /\ args_config = [kind |-> "mapping", value |-> mapping]
        /\ config = Update(DefaultConfig, mapping)
        /\ warnings = <<>>
        /\ startup = "ready"
        /\ raised = "none"

Init == EnvInit /\ SamplerIdle /\ ConfigIdle
Next == EnvNext
Spec == Init /\ [][Next]_vars

\* the replay script; the environment stays as constructed
ReplayInit == SamplerInit /\ EnvInit /\ ConfigLoaded

\* the start of the replay script, up to the creation of the simulation app
StartupInit == ConfigInit /\ SamplerIdle /\ EnvInit
StartupNext == ConfigNext
StartupSpec == StartupInit /\ [][StartupNext]_vars
ReplayNext == SamplerNext
ReplaySpec == ReplayInit /\ [][ReplayNext]_vars

(***************************************************************************)
(* Properties of the trajectory replay (checked under ReplaySpec)          *)
(***************************************************************************)
\* the records of `emitted` that belong to group g, in order
RECURSIVE RecordsOf(_, _)
RecordsOf(s, g) ==
    IF s = <<>> THEN <<>>
    ELSE (IF Head(s).group = g THEN <<Head(s)>> ELSE <<>>) \o RecordsOf(Tail(s), g)

Groups == 0..(Len(db) - 1)
\* groups whose process_group call has returned
FinishedGroups == {g \in Groups : g < group_num}
\* number of loop iterations process_group has completed for group g
Iterated(g) ==
    IF g < group_num THEN Len(getTrajectory(g))
    ELSE IF g = group_num /\ pc = "loop" THEN sample_counter
    ELSE 0
LastIndex(g) == Len(getTrajectory(g)) - 1
LastRecord(g) == RecordsOf(emitted, g)[Len(RecordsOf(emitted, g))]
CeilDiv(a, b) == (a + b - 1) \div b

\* C3 as claimed: for interval > 0, the dt emitted with the last sample the
\* sampler visits of a trajectory is zero
C3_LastDtZero ==
    \A g \in FinishedGroups :
        (interval > 0 /\ RecordsOf(emitted, g) # <<>>) => LastRecord(g).dt = 0

\* C3 (amended): for interval > 0, the dt emitted with the last visited sample is
\* zero exactly when the trajectory's last index is a multiple of the interval;
\* otherwise it is the positive delta to the sample after the last visited one
C3_LastDtZeroIffAligned ==
    \A g \in FinishedGroups :
        (interval > 0 /\ RecordsOf(emitted, g) # <<>>) =>
            LET last == LastRecord(g)
                trajectory == getTrajectory(g)
            IN  /\ (last.dt = 0) <=> (LastIndex(g) % interval = 0)
                /\ LastIndex(g) % interval # 0 =>
                      /\ last.dt > 0
                      /\ last.dt = Timestamp(trajectory, last.index + 1)
                                     - Timestamp(trajectory, last.index)

\* a replayed trajectory whose last index is not a multiple of the interval, and
\* whose last visited sample got a non-zero dt
C3_Witness ==
    \E g \in FinishedGroups :
        /\ interval > 0
        /\ RecordsOf(emitted, g) # <<>>
        /\ LastIndex(g) % interval # 0
        /\ LastRecord(g).dt > 0

\* C4: for interval > 0 the sampler visits exactly the indices 0, interval,
\* 2*interval, ... below the trajectory length (ceil(L/interval) of them once the
\* trajectory is done), each once, in strictly increasing index and timestamp order
C4_VisitsEveryIntervalth ==
    interval > 0 =>
        \A g \in Groups :
            LET recs == RecordsOf(emitted, g)
                trajectory == getTrajectory(g)
            IN  /\ Len(recs) = CeilDiv(Iterated(g), interval)
                /\ \A k \in 1..Len(recs) :
                      /\ recs[k].index = (k - 1) * interval
                      /\ recs[k].index < Len(trajectory)
                      /\ recs[k].timestamp = Timestamp(trajectory, recs[k].index)
                /\ \A j, k \in 1..Len(recs) :
                      j < k => /\ recs[j].index < recs[k].index
                               /\ recs[j].timestamp < recs[k].timestamp

\* the replay is over and some trajectory was visited at more than one index, with
\* samples skipped in between
C4_Witness ==
    /\ pc = "done"
    /\ interval > 1
    /\ \E g \in FinishedGroups :
          /\ Len(RecordsOf(emitted, g)) >= 2
          /\ Len(RecordsOf(emitted, g)) < Len(getTrajectory(g))

\* C5: the dt of a visited sample at index i is timestamp[i+1] - timestamp[i] when
\* i+1 < len(trajectory) and zero at the final index, whatever the interval
C5_DtToNextUnstrided ==
    \A k \in 1..Len(emitted) :
        LET e == emitted[k]
            trajectory == getTrajectory(e.group)
        IN  e.dt = IF e.index + 1 < Len(trajectory)
                   THEN Timestamp(trajectory, e.index + 1) - Timestamp(trajectory, e.index)
                   ELSE 0

\* a sample that is not the final one was visited with an interval that skips its
\* successor, and a final sample was visited
C5_Witness ==
    /\ interval > 1
    /\ \E k \in 1..Len(emitted) :
          emitted[k].index + interval < Len(getTrajectory(emitted[k].group))
    /\ \E k \in 1..Len(emitted) :
          emitted[k].index = LastIndex(emitted[k].group)

\* the documented example is being replayed: 101 samples, interval 10
ExampleRun == Len(db) = 1 /\ Len(db[1]) = 101 /\ interval = 10

\* C6 as claimed: in the example the dt emitted with the sample at index 0 is
\* timestamp[10] - timestamp[0], the delta to the next visited sample
C6_ExampleDtToNextVisited ==
    ExampleRun =>
        \A k \in 1..Len(emitted) :
            emitted[k].index = 0 =>
                emitted[k].dt = Timestamp(db[1], 10) - Timestamp(db[1], 0)

\* C6 (amended): in the example the dt emitted with the sample at index 0 is
\* timestamp[1] - timestamp[0], the delta to the next sample of the full trajectory
C6_ExampleDtToNextSample ==
    ExampleRun =>
        \A k \in 1..Len(emitted) :
            emitted[k].index = 0 =>
                emitted[k].dt = Timestamp(db[1], 1) - Timestamp(db[1], 0)

\* the example has been replayed to its end: 11 samples, the first at index 0
C6_Witness ==
    /\ ExampleRun
    /\ pc = "done"
    /\ Len(emitted) = 11
    /\ emitted[1].index = 0
    /\ emitted[11].index = 100

\* C7 as claimed: with interval <= 0 the replay of a trajectory fails with an
\* index-out-of-range error and no sample is emitted before the failure
C7_NonPositiveIntervalFails ==
    interval <= 0 =>
        /\ emitted = <<>>
        /\ FinishedGroups = {}
        /\ error \in {"none", "IndexError"}

(***************************************************************************)
(* Properties of the environment (checked under Spec)                      *)
(***************************************************************************)
\* the last call was _reset_idx; ResetSet is the set it reset
AfterReset == call.op = "_reset_idx"
ResetSet == ResolveEnvIds(call.env_ids)
ProperSubsetArg(arg) == ~arg.is_none /\ arg.ids # {} /\ arg.ids # Envs /\ arg.ids \subseteq Envs

\* C1: a _reset_idx call with a proper subset S of the environments leaves, for
\* every environment outside S, the desired position, yaw and yaw quaternion, every
\* reward sum, the step counter and the action buffer entry as they were
C1_ResetFrame ==
    [][ (call'.op = "_reset_idx" /\ ProperSubsetArg(call'.env_ids)) =>
            \A i \in Envs \ call'.env_ids.ids :
                /\ desired_pos_w'[i] = desired_pos_w[i]
                /\ desired_yaw_w'[i] = desired_yaw_w[i]
                /\ desired_yaw_quat'[i] = desired_yaw_quat[i]
                /\ \A key \in RewardKeys : episode_sums'[key][i] = episode_sums[key][i]
                /\ episode_length_buf'[i] = episode_length_buf[i]
                /\ actions'[i] = actions[i] ]_vars

\* a proper subset was reset while an environment outside it had a goal set, reward
\* sums accumulated, steps counted and an action stored
C1_Witness ==
    /\ AfterReset
    /\ ProperSubsetArg(call.env_ids)
    /\ \E i \in Envs \ call.env_ids.ids :
          /\ desired_pos_w[i] # <<0, 0, 0>>
          /\ desired_yaw_w[i] # 0
          /\ episode_sums["lin_vel"][i] # 0
          /\ episode_length_buf[i] > 0
          /\ actions[i] # <<0, 0, 0, 0>>

\* states of one environment, as far as the logging reads them
EnvVariants(i) ==
    [desired_pos_w : {<<0, 0, 0>>, <<29, -30, 29>>},
     desired_yaw_quat : {YawQuat(<<0, 0, 0, 0>>, 0), YawQuat(<<0, 0, 0, 0>>, 2)},
     robot : {AtOrigin(o, i) : o \in PhysicsOutcomes \cup {default_root_state}},
     episode_sums : {[key \in RewardKeys |-> s] : s \in {0, 1000}},
     reset_terminated : BOOLEAN,
     reset_time_outs : BOOLEAN]

\* the batches that agree with batch b on every environment of S
BatchesAgreeingOn(b, S) ==
    {[desired_pos_w |-> [i \in Envs |-> IF i \in S THEN b.desired_pos_w[i]
                                         ELSE v[i].desired_pos_w],
      desired_yaw_quat |-> [i \in Envs |-> IF i \in S THEN b.desired_yaw_quat[i]
                                            ELSE v[i].desired_yaw_quat],
      robot |-> [i \in Envs |-> IF i \in S THEN b.robot[i] ELSE v[i].robot],
      episode_sums |-> [key \in RewardKeys |->
                          [i \in Envs |-> IF i \in S THEN b.episode_sums[key][i]
                                          ELSE v[i].episode_sums[key]]],
      reset_terminated |-> [i \in Envs |-> IF i \in S THEN b.reset_terminated[i]
                                            ELSE v[i].reset_terminated],
      reset_time_outs |-> [i \in Envs |-> IF i \in S THEN b.reset_time_outs[i]
                                           ELSE v[i].reset_time_outs]] :
        v \in [Envs \ S -> UNION {EnvVariants(i) : i \in Envs}]}

\* C2 as claimed: the aggregates logged by a reset of S are computed from the
\* environments of S only: every batch that agrees with the batch on S yields
\* the same log
C2_LogReadsOnlyResetEnvs ==
    [][ call'.op = "_reset_idx" =>
            LET S == ResolveEnvIds(call'.env_ids)
            IN  \A other \in BatchesAgreeingOn(Batch, S) :
                    LogAggregates(other, S) = log' ]_vars

\* C8 as claimed: after every reset each environment that was reset does not
\* satisfy the time-out condition of _get_dones
C8_ResetLeavesRunning ==
    AfterReset => \A i \in ResetSet : ~TimeOut(i)

\* the last call was _get_dones
AfterGetDones == call.op = "_get_dones"

\* C9 as claimed: timed-out holds exactly from step counter maxEpisodeLength on,
\* so it is false for every step counter below maxEpisodeLength
C9_TimedOutAtMax ==
    AfterGetDones =>
        \A i \in Envs : reset_time_outs[i] <=> episode_length_buf[i] >= MaxEpisodeLength

\* C9 (amended): timed-out holds exactly from step counter maxEpisodeLength - 1
\* on, so it is false for every step counter below maxEpisodeLength - 1
C9_TimedOutAtMaxMinusOne ==
    AfterGetDones =>
        \A i \in Envs :
            reset_time_outs[i] <=> episode_length_buf[i] >= MaxEpisodeLength - 1

\* _get_dones reported one environment timed out below maxEpisodeLength and
\* another one still running
C9_Witness ==
    /\ AfterGetDones
    /\ \E i \in Envs : reset_time_outs[i] /\ episode_length_buf[i] < MaxEpisodeLength
    /\ \E i \in Envs : ~reset_time_outs[i] /\ episode_length_buf[i] > 0

\* C10: timed-out is true at step counter maxEpisodeLength - 1 and false at every
\* smaller one, and two environments with the same step counter get the same flag
\* whatever their altitudes
C10_TimedOutBoundary ==
    AfterGetDones =>
        /\ \A i \in Envs :
              /\ episode_length_buf[i] = MaxEpisodeLength - 1 => reset_time_outs[i]
              /\ episode_length_buf[i] < MaxEpisodeLength - 1 => ~reset_time_outs[i]
        /\ \A i, j \in Envs :
              episode_length_buf[i] = episode_length_buf[j] =>
                  reset_time_outs[i] = reset_time_outs[j]

\* _get_dones ran on two environments with the same step counter at the boundary,
\* one outside the altitude band and one inside, and both were reported timed out
C10_Witness ==
    /\ AfterGetDones
    /\ \E i, j \in Envs :
          /\ episode_length_buf[i] = MaxEpisodeLength - 1
          /\ episode_length_buf[j] = MaxEpisodeLength - 1
          /\ reset_terminated[i] /\ ~reset_terminated[j]
          /\ reset_time_outs[i] /\ reset_time_outs[j]

\* the world-frame altitude of the root of robot i
Altitude(i) == robot[i].root_pos_w[3]

\* C11: the died flag of _get_dones is true exactly for the robots whose altitude
\* is below 0.1 m or above 2.0 m; a robot at exactly 0.1 m or 2.0 m has not died,
\* and the step counter plays no part
C11_DiedOutsideBand ==
    AfterGetDones =>
        \A i \in Envs :
            /\ reset_terminated[i] <=> (Altitude(i) < AltitudeMin \/ Altitude(i) > AltitudeMax)
            /\ Altitude(i) \in {AltitudeMin, AltitudeMax} => ~reset_terminated[i]
            /\ \A j \in Envs :
                  Altitude(i) = Altitude(j) => reset_terminated[i] = reset_terminated[j]

\* _get_dones ran on a robot at the upper edge of the altitude band whose episode
\* had timed out, and did not report it died
C11_Witness ==
    /\ AfterGetDones
    /\ \E i \in Envs :
          /\ Altitude(i) = AltitudeMax
          /\ ~reset_terminated[i]
          /\ reset_time_outs[i]

C13_RandomizeOnlyFullBatch ==
    [][ call'.op = "_reset_idx" =>
            IF ProperSubsetArg(call'.env_ids)
            THEN \A i \in Envs :
                    episode_length_buf'[i] =
                        IF i \in call'.env_ids.ids THEN 0 ELSE episode_length_buf[i]
            ELSE \A i \in Envs :
                    episode_length_buf'[i] \in 0..(MaxEpisodeLength - 1) ]_vars

\* a step whose episodes all ended reset the whole batch, passed as all N indices,
\* and the counters were drawn apart, one of them above zero
C13_Witness ==
    /\ AfterReset
    /\ nsteps > 0
    /\ ~call.env_ids.is_none
    /\ call.env_ids.ids = Envs
    /\ \E i, j \in Envs :
          /\ episode_length_buf[i] = MaxEpisodeLength - 1
          /\ episode_length_buf[j] = 0

\* C14: in every reachable state, for every environment the stored desired-yaw
\* quaternion is the unit quaternion of the stored desired yaw about the vertical
\* axis: w = cos(yaw/2), x = y = 0, z = sin(yaw/2)
C14_YawQuatOfYaw ==
    \A i \in Envs :
        /\ desired_yaw_quat[i][1] = CosQ(desired_yaw_w[i] \div 2)
        /\ desired_yaw_quat[i][2] = 0
        /\ desired_yaw_quat[i][3] = 0
        /\ desired_yaw_quat[i][4] = SinQ(desired_yaw_w[i] \div 2)
        /\ SumSquares(desired_yaw_quat[i]) = 1

\* after a step that reset one environment, that environment aims at a yaw of pi
\* while the other still holds the yaw of an earlier reset, zero
C14_Witness ==
    /\ AfterReset
    /\ ProperSubsetArg(call.env_ids)
    /\ \E i \in ResetSet : desired_yaw_w[i] = Pi /\ desired_yaw_quat[i] = <<0, 0, 0, 1>>
    /\ \E j \in Envs \ ResetSet : desired_yaw_w[j] = 0 /\ desired_yaw_quat[j] = <<1, 0, 0, 0>>

\* the value one reward computation adds to the lin_vel sum of a robot that flies
\* inside the altitude band
NominalLinVelReward == 100 * SumSquares(NominalOutcome.root_lin_vel_b) * lin_vel_reward_scale * StepDtCenti

\* C15: the reward sums are zero at construction; every _get_rewards call adds the
\* step's value of each of the four components to each environment's sum; _reset_idx
\* zeroes the sums of the environments it resets, leaves the others, and logs for
\* each component the mean over the reset environments of the sums as they stood
\* before, divided by the episode duration; no other method changes a sum
C15_SumsAccumulateUntilReset ==
    /\ \A key \in RewardKeys : \A i \in Envs : episode_sums[key][i] = 0
    /\ [][ \A key \in RewardKeys :
              CASE call'.op = "_get_rewards" ->
                     \A i \in Envs :
                         episode_sums'[key][i] = episode_sums[key][i] + Rewards(i)[key]
                [] call'.op = "_reset_idx" ->
                     LET S == ResolveEnvIds(call'.env_ids)
                     IN  /\ \A i \in Envs :
                               episode_sums'[key][i] =
                                   IF i \in S THEN 0 ELSE episode_sums[key][i]
                         /\ log'.Episode_Reward[key] =
                               [sum |-> SumOver(episode_sums[key], S),
                                count |-> Cardinality(S) * max_episode_length_s]
                [] OTHER -> episode_sums'[key] = episode_sums[key] ]_vars

\* a step reset one environment whose lin_vel sum had grown over two reward
\* computations: the log holds that sum, the sum is zero again, and the other
\* environment keeps the sum of its own episode
C15_Witness ==
    /\ AfterReset
    /\ ProperSubsetArg(call.env_ids)
    /\ Cardinality(ResetSet) = 1
    /\ log.Episode_Reward["lin_vel"] =
          [sum |-> 2 * NominalLinVelReward, count |-> max_episode_length_s]
    /\ \A i \in ResetSet : episode_sums["lin_vel"][i] = 0
    /\ \E j \in Envs \ ResetSet : episode_sums["lin_vel"][j] = NominalLinVelReward

\* the thrust of a first action component of 1: thrustToWeight * robotWeight
MaxThrust == thrust_to_weight * robot_weight * ActionOne

\* C16: _pre_physics_step stores the supplied action clamped to [-1, 1] and sets,
\* from that action alone, the thrust to thrustToWeight * robotWeight * (a0 + 1) / 2
\* on the clamped a0 and the moment to momentScale times the clamped a1..a3; the
\* thrust lies in [0, thrustToWeight * robotWeight], is zero at a0 = -1 and
\* thrustToWeight * robotWeight at a0 = 1
C16_ThrustOfLatestAction ==
    [][ call'.op = "_pre_physics_step" =>
            \E input \in ActionBatches :
                \A i \in Envs :
                    LET a == [k \in 1..4 |->
                                IF input[i][k] < -ActionOne THEN -ActionOne
                                ELSE IF input[i][k] > ActionOne THEN ActionOne
                                ELSE input[i][k]]
                    IN  /\ actions'[i] = a
                        /\ 2 * thrust'[i] = thrust_to_weight * robot_weight * (a[1] + ActionOne)
                        /\ thrust'[i] >= 0 /\ thrust'[i] <= MaxThrust
                        /\ a[1] = -ActionOne => thrust'[i] = 0
                        /\ a[1] = ActionOne => thrust'[i] = MaxThrust
                        /\ moment'[i] = <<moment_scale * a[2], moment_scale * a[3],
                                           moment_scale * a[4]>> ]_vars

\* the second step of the host supplied a first component below -1 to one
\* environment and of 1 to another, after a first step with other actions: the
\* thrusts are zero and thrustToWeight * robotWeight
C16_Witness ==
    /\ call.op = "_pre_physics_step"
    /\ nsteps = 2
    /\ \E i, j \in Envs :
          /\ actions[i][1] = -ActionOne /\ thrust[i] = 0
          /\ actions[j][1] = ActionOne /\ thrust[j] = MaxThrust

(***************************************************************************)
(* Properties of the configuration loading (checked under StartupSpec)     *)
(***************************************************************************)
\* the module-level code has run to the creation of the simulation app or ended
StartupOver == startup \in {"ready", "aborted"}

\* --config is absent, names no file, names a file that is neither .json nor
\* .yaml, or names a .json/.yaml file that does not parse
MissingOrMalformed ==
    \/ ~argv_config.given
    \/ ~argv_config.file.exists
    \/ argv_config.ext = "other"
    \/ argv_config.file.content.kind = "malformed"

\* C17 as claimed: with a missing or malformed configuration file the start-up is
\* not aborted: a warning is logged and the configuration is the built-in default
C17_BadConfigFallsBack ==
    (StartupOver /\ MissingOrMalformed) =>
        /\ startup = "ready"
        /\ raised = "none"
        /\ warnings # <<>>
        /\ config = DefaultConfig

(***************************************************************************)
(* Properties of the writer protocol (checked under ReplaySpec)            *)
(***************************************************************************)
\* number of orchestrator steps recorded for group g
StepsOf(g) == Cardinality({k \in 1..Len(events) :
                              events[k] = [ev |-> "orchestrator.step", group |-> g]})

\* the events of one group in protocol order, with n orchestrator steps
ProtocolOf(g, n) ==
    <<[ev |-> "writer.initialize", group |-> g], [ev |-> "writer.attach", group |-> g]>>
    \o [k \in 1..n |-> [ev |-> "orchestrator.step", group |-> g]]
    \o <<[ev |-> "orchestrator.wait_until_complete", group |-> g],
         [ev |-> "writer.detach", group |-> g]>>

\* the protocols of groups g, g+1, ..., len(db)-1 one after the other, each with
\* the steps recorded for it
RECURSIVE ProtocolFrom(_)
ProtocolFrom(g) ==
    IF g >= Len(db) THEN <<>>
    ELSE ProtocolOf(g, StepsOf(g)) \o ProtocolFrom(g + 1)

IsPrefix(a, b) == Len(a) <= Len(b) /\ \A k \in 1..Len(a) : a[k] = b[k]

\* C18 as claimed: the events follow, group by group in ascending order, the
\* sequence initialize, attach, steps, wait_until_complete, detach (so no step
\* happens without an attached writer and a writer is detached before the next is
\* attached), and when main is over every group of the store has been processed
\* once, each to its detach
C18_WriterProtocol ==
    /\ IsPrefix(events, ProtocolFrom(0))
    /\ pc = "done" => events = ProtocolFrom(0)

====
